---- MODULE Spec2Model ----
(***************************************************************************)
(* Model of the dict crate (src/src/lib.rs): Dict<T> is a Vec of           *)
(* DictEntry{hash,key,val} kept sorted by hash; DictIface adds add,        *)
(* remove_key, get and contains_key, all built on binary_search_by_key     *)
(* over the stored hashes.                                                 *)
(***************************************************************************)
EXTENDS Integers, Sequences, FiniteSets, TLC

(* ---------------- bounds ---------------- *)
MaxKeys == 3
MaxHash == 2

KeyNames == <<"key", "other_key", "k3", "k4", "k5", "k6">>
Keys   == {KeyNames[i] : i \in 1..MaxKeys}
Hashes == 0..MaxHash
\* T is opaque to the code; the two values of the crate's doc example
Vals   == {"val", "other_val"}

VARIABLES
    dict,     \* the Vec<DictEntry<T>>
    hasher,   \* the function computed by DefaultHasher on the keys
    op,       \* last call: "new", "add", "remove_key", "get", "contains_key"
    key,      \* key argument of the last call
    val,      \* val argument of the last call ("" when there is none)
    ret,      \* value returned by the last call
    pre       \* the Vec as it was when the last call started

vars == <<dict, hasher, op, key, val, ret, pre>>

(* ---------------- Option<T> ---------------- *)
None    == <<>>
Some(v) == <<v>>

(* ---------------- hash_f ---------------- *)
\* hash_f: a deterministic function of the key; distinct keys may collide
hash_f(k) == hasher[k]

\* variant: the hash field is left at zero instead of taken from the key
DictEntryZeroHash(k, v) == [hash |-> 0, key |-> k, val |-> v]

DictEntry(k, v) == [hash |-> hash_f(k), key |-> k, val |-> v]

(* ---------------- slice::binary_search_by_key ---------------- *)
\* indices are 0-based as in Rust; s[i + 1] is the element at index i
\* variant: the comparison that picks the half is reversed
RECURSIVE SearchLoopSwapped(_, _, _, _)
SearchLoopSwapped(s, h, base, size) ==
    IF size <= 1 THEN base
    ELSE LET half == size \div 2
             mid  == base + half
         IN  SearchLoopSwapped(s, h, IF s[mid + 1].hash < h THEN base ELSE mid, size - half)

RECURSIVE SearchLoop(_, _, _, _)
SearchLoop(s, h, base, size) ==
    IF size <= 1 THEN base
    ELSE LET half == size \div 2
             mid  == base + half
         IN  SearchLoop(s, h, IF s[mid + 1].hash > h THEN base ELSE mid, size - half)

Ok(p)  == [ok |-> TRUE,  pos |-> p]
Err(p) == [ok |-> FALSE, pos |-> p]

\* variant: the insertion point after a smaller element is not advanced
binary_search_noinc(s, h) ==
    IF Len(s) = 0 THEN Err(0)
    ELSE LET base == SearchLoop(s, h, 0, Len(s))
         IN  IF s[base + 1].hash = h THEN Ok(base) ELSE Err(base)

binary_search_by_key(s, h) ==
    IF Len(s) = 0 THEN Err(0)
    ELSE LET base == SearchLoop(s, h, 0, Len(s))
         IN  IF s[base + 1].hash = h THEN Ok(base)
             ELSE Err(base + (IF s[base + 1].hash < h THEN 1 ELSE 0))

(* ---------------- Vec::insert / Vec::remove ---------------- *)
\* variant: pos taken as a 1-based index
VecRemoveOffByOne(s, pos) == SubSeq(s, 1, pos - 1) \o SubSeq(s, pos + 1, Len(s))

VecInsert(s, pos, e) == SubSeq(s, 1, pos) \o <<e>> \o SubSeq(s, pos + 1, Len(s))
VecRemove(s, pos)    == SubSeq(s, 1, pos) \o SubSeq(s, pos + 2, Len(s))

(* ---------------- DictIface ---------------- *)
\* each operator gives the Vec after the call and the value returned

\* variant: the new entry is pushed at the end instead of at pos
add_push(d, k, v) ==
    LET r == binary_search_by_key(d, hash_f(k))
    IN  IF r.ok THEN [dict |-> d, ret |-> FALSE]
        ELSE [dict |-> Append(d, DictEntry(k, v)), ret |-> TRUE]

\* variant: an existing entry is overwritten (update in place)
add_overwrite(d, k, v) ==
    LET r == binary_search_by_key(d, hash_f(k))
    IN  IF r.ok THEN [dict |-> [d EXCEPT ![r.pos + 1] = DictEntry(k, v)], ret |-> FALSE]
        ELSE [dict |-> VecInsert(d, r.pos, DictEntry(k, v)), ret |-> TRUE]

\* variant: the Ok arm does not return, the entry is inserted in both arms
add_nocheck(d, k, v) ==
    LET r == binary_search_by_key(d, hash_f(k))
    IN  [dict |-> VecInsert(d, r.pos, DictEntry(k, v)), ret |-> TRUE]

\* variant: the new entry is inserted one position early
add_early(d, k, v) ==
    LET r == binary_search_by_key(d, hash_f(k))
    IN  IF r.ok THEN [dict |-> d, ret |-> FALSE]
        ELSE [dict |-> VecInsert(d, IF r.pos > 0 THEN r.pos - 1 ELSE 0, DictEntry(k, v)),
              ret |-> TRUE]

\* variant: Err(pos) is treated like Ok(pos) when pos is a valid index
remove_key_any(d, k) ==
    LET r == binary_search_by_key(d, hash_f(k))
    IN  IF r.pos < Len(d) THEN [dict |-> VecRemove(d, r.pos), ret |-> Some(d[r.pos + 1].val)]
        ELSE [dict |-> d, ret |-> None]

\* variant: the last entry is popped instead of the one found
remove_key_pop(d, k) ==
    LET r == binary_search_by_key(d, hash_f(k))
    IN  IF r.ok THEN [dict |-> SubSeq(d, 1, Len(d) - 1), ret |-> Some(d[Len(d)].val)]
        ELSE [dict |-> d, ret |-> None]

add(d, k, v) ==
    LET r == binary_search_by_key(d, hash_f(k))
    IN  IF r.ok THEN [dict |-> d, ret |-> FALSE]
        ELSE [dict |-> VecInsert(d, r.pos, DictEntry(k, v)), ret |-> TRUE]

remove_key(d, k) ==
    LET r == binary_search_by_key(d, hash_f(k))
    IN  IF r.ok THEN [dict |-> VecRemove(d, r.pos), ret |-> Some(d[r.pos + 1].val)]
        ELSE [dict |-> d, ret |-> None]

get(d, k) ==
    LET r == binary_search_by_key(d, hash_f(k))
    IN  IF r.ok THEN Some(d[r.pos + 1].val) ELSE None

contains_key(d, k) == get(d, k) # None

(* ---------------- reference map ---------------- *)
\* the map the crate's documentation measures Dict against (HashMap)
EmptyMap == [x \in {} |-> ""]
MapInsertIfAbsent(m, k, v) ==
    IF k \in DOMAIN m THEN [map |-> m, ret |-> FALSE]
    ELSE [map |-> [x \in DOMAIN m \cup {k} |-> IF x = k THEN v ELSE m[x]], ret |-> TRUE]
MapDelete(m, k) ==
    IF k \in DOMAIN m THEN [map |-> [x \in DOMAIN m \ {k} |-> m[x]], ret |-> Some(m[k])]
    ELSE [map |-> m, ret |-> None]
MapLookup(m, k) == IF k \in DOMAIN m THEN Some(m[k]) ELSE None

(* ---------------- state machine ---------------- *)
Init ==
    /\ dict = <<>>
    /\ hasher \in [Keys -> Hashes]
    /\ op = "new"
    /\ key = ""
    /\ val = ""
    /\ ret = FALSE
    /\ pre = <<>>

Add(k, v) ==
    /\ dict' = add(dict, k, v).dict
    /\ ret' = add(dict, k, v).ret
    /\ op' = "add" /\ key' = k /\ val' = v /\ pre' = dict
    /\ UNCHANGED hasher

RemoveKey(k) ==
    /\ dict' = remove_key(dict, k).dict
    /\ ret' = remove_key(dict, k).ret
    /\ op' = "remove_key" /\ key' = k /\ val' = "" /\ pre' = dict
    /\ UNCHANGED hasher

Get(k) ==
    /\ ret' = get(dict, k)
    /\ op' = "get" /\ key' = k /\ val' = "" /\ pre' = dict
    /\ UNCHANGED <<dict, hasher>>

ContainsKey(k) ==
    /\ ret' = contains_key(dict, k)
    /\ op' = "contains_key" /\ key' = k /\ val' = "" /\ pre' = dict
    /\ UNCHANGED <<dict, hasher>>

Next ==
    \/ \E k \in Keys, v \in Vals : Add(k, v)
    \/ \E k \in Keys : RemoveKey(k)
    \/ \E k \in Keys : Get(k)
    \/ \E k \in Keys : ContainsKey(k)

Spec == Init /\ [][Next]_vars

TypeOK ==
    /\ hasher \in [Keys -> Hashes]
    /\ op \in {"new", "add", "remove_key", "get", "contains_key"}
    /\ \A i \in 1..Len(dict) : dict[i].key \in Keys /\ dict[i].val \in Vals /\ dict[i].hash \in Hashes

(* ---------------- helpers of the properties ---------------- *)
Idx(d)          == 1..Len(d)
HasKey(d, k)    == \E i \in Idx(d) : d[i].key = k
HasHash(d, h)   == \E i \in Idx(d) : d[i].hash = h
Without(s, p)   == [i \in 1..(Len(s) - 1) |-> IF i < p THEN s[i] ELSE s[i + 1]]
Pairs(d)        == {<<d[i].key, d[i].val>> : i \in Idx(d)}
MapPairs(m)     == {<<k, m[k]>> : k \in DOMAIN m}
InjectiveOn(S)  == \A a \in S, b \in S : hash_f(a) = hash_f(b) => a = b
KeysOf(d)       == {d[i].key : i \in Idx(d)}
AbsMap(d)       == [k \in KeysOf(d) |-> d[CHOOSE i \in Idx(d) : d[i].key = k].val]
Collides(d, k)  == \E i \in Idx(d) : d[i].key # k /\ d[i].hash = hash_f(k)

(* C1: in every reachable state the entries are in strictly ascending order
   of their stored hash, so no two entries share a hash. *)
C1_StrictlyAscending ==
    \A i \in Idx(dict), j \in Idx(dict) : i < j => dict[i].hash < dict[j].hash

\* a third entry was just inserted in front of the two already there
C1_Witness ==
    /\ op = "add" /\ ret = TRUE /\ Len(dict) = 3
    /\ dict[1].key = key

(* C2: add(k, v2) for a key k that already has an entry returns false, leaves
   the length and the whole sequence unchanged, and get(k) still returns the
   value that was stored. *)
C2_DuplicateKeyRejected ==
    (op = "add" /\ HasKey(pre, key)) =>
        /\ ret = FALSE
        /\ Len(dict) = Len(pre)
        /\ dict = pre
        /\ \A i \in Idx(pre) : pre[i].key = key => get(dict, key) = Some(pre[i].val)

\* add of a present key with a value different from the stored one
C2_Witness ==
    /\ op = "add" /\ Len(pre) >= 2
    /\ \E i \in Idx(pre) : pre[i].key = key /\ pre[i].val # val

(* C3: if add(k, v) returns true, the length has grown by exactly 1 and
   immediately afterwards get(k) returns v and contains_key(k) returns true. *)
C3_AddRoundTrip ==
    (op = "add" /\ ret = TRUE) =>
        /\ Len(dict) = Len(pre) + 1
        /\ get(dict, key) = Some(val)
        /\ contains_key(dict, key) = TRUE

\* a successful add into a Dict of two entries, between them
C3_Witness ==
    /\ op = "add" /\ ret = TRUE /\ Len(pre) = 2
    /\ pre[1].hash < hash_f(key) /\ hash_f(key) < pre[2].hash

(* C4: remove_key(k) for a key k that has an entry returns the value stored
   for k, decreases the length by exactly 1, and immediately afterwards
   contains_key(k) returns false and get(k) reports absence. *)
C4_RemovePresent ==
    (op = "remove_key" /\ HasKey(pre, key)) =>
        /\ \A i \in Idx(pre) : pre[i].key = key => ret = Some(pre[i].val)
        /\ Len(dict) = Len(pre) - 1
        /\ contains_key(dict, key) = FALSE
        /\ get(dict, key) = None

\* the middle one of three entries was removed
C4_Witness ==
    /\ op = "remove_key" /\ Len(pre) = 3 /\ pre[2].key = key

(* C5: for a key whose hash is the stored hash of no entry, get returns None,
   contains_key returns false and remove_key returns None, each leaving the
   sequence of entries unchanged; get and contains_key leave the Dict
   unchanged in every case. *)
C5_AbsentNoEffect ==
    /\ op \in {"get", "contains_key"} => dict = pre
    /\ (op = "get" /\ ~HasHash(pre, hash_f(key))) => ret = None
    /\ (op = "contains_key" /\ ~HasHash(pre, hash_f(key))) => ret = FALSE
    /\ (op = "remove_key" /\ ~HasHash(pre, hash_f(key))) => (ret = None /\ dict = pre)

\* remove_key of a key whose hash falls between two stored hashes
C5_Witness ==
    /\ op = "remove_key" /\ Len(pre) = 2
    /\ pre[1].hash < hash_f(key) /\ hash_f(key) < pre[2].hash

(* C6 as stated: contains_key(k) returns true exactly when the Dict holds an
   entry whose key string equals k, and get(k) returns Some exactly in that
   case, with the value of that entry. *)
C6_Original ==
    /\ op = "contains_key" => (ret = TRUE <=> HasKey(dict, key))
    /\ op = "get" => /\ (ret # None <=> HasKey(dict, key))
                     /\ \A i \in Idx(dict) : dict[i].key = key => ret = Some(dict[i].val)

(* C6 amended: contains_key(k) returns true exactly when the Dict holds an
   entry whose stored hash equals hash_f(k), and get(k) returns Some exactly
   in that case, with the value of that entry; when no entry of a different
   key has the hash of k, that is exactly when an entry has key k. *)
C6_LookupByHash ==
    /\ op = "contains_key" => (ret = TRUE <=> HasHash(dict, hash_f(key)))
    /\ op = "get" => /\ (ret # None <=> HasHash(dict, hash_f(key)))
                     /\ \A i \in Idx(dict) : dict[i].hash = hash_f(key) => ret = Some(dict[i].val)
    /\ (op \in {"get", "contains_key"} /\ ~Collides(dict, key)) =>
           (HasHash(dict, hash_f(key)) <=> HasKey(dict, key))

\* contains_key answered true for a key that has no entry of its own
C6_Witness ==
    /\ op = "contains_key" /\ ret = TRUE /\ ~HasKey(dict, key) /\ Len(dict) >= 2

(* C7: when k2 has the hash of a distinct key k1 that has an entry, add(k2, v)
   returns false and changes nothing, get(k2) returns the value stored for k1,
   contains_key(k2) returns true, and remove_key(k2) removes the entry of k1
   and returns its value. *)
C7_CollisionAliases ==
    \A i \in Idx(pre) : (pre[i].key # key /\ pre[i].hash = hash_f(key)) =>
        /\ op = "add" => (ret = FALSE /\ dict = pre)
        /\ op = "get" => ret = Some(pre[i].val)
        /\ op = "contains_key" => ret = TRUE
        /\ op = "remove_key" => (ret = Some(pre[i].val) /\ dict = Without(pre, i))

\* remove_key through a colliding key took out the first of two entries
C7_Witness ==
    /\ op = "remove_key" /\ Len(pre) = 2
    /\ pre[1].key # key /\ pre[1].hash = hash_f(key)

(* C8: keys are unique among the entries and every entry's stored hash equals
   hash_f of its own key, also when distinct keys collide in hash. *)
C8_UniqueKeysOwnHash ==
    /\ \A i \in Idx(dict), j \in Idx(dict) : i # j => dict[i].key # dict[j].key
    /\ \A i \in Idx(dict) : dict[i].hash = hash_f(dict[i].key)

\* two entries, and an add of a colliding third key was just rejected
C8_Witness ==
    /\ op = "add" /\ ret = FALSE /\ Len(dict) = 2 /\ Collides(dict, key)

(* C9: across any single call every surviving entry keeps its hash, key and
   value and its order relative to the others; the only entry that can appear
   is the one inserted by an add that returns true, and the only entry that
   can disappear is the one whose value a remove_key call returns. *)
C9_Frame ==
    /\ op \in {"new", "get", "contains_key"} => dict = pre
    /\ (op = "add" /\ ret = FALSE) => dict = pre
    /\ (op = "add" /\ ret = TRUE) =>
           \E p \in Idx(dict) :
               /\ dict[p] = [hash |-> hash_f(key), key |-> key, val |-> val]
               /\ Without(dict, p) = pre
    /\ (op = "remove_key" /\ ret = None) => dict = pre
    /\ (op = "remove_key" /\ ret # None) =>
           \E p \in Idx(pre) : ret = Some(pre[p].val) /\ Without(pre, p) = dict

\* an entry just left a Dict of three, the two others stay
C9_Witness ==
    /\ op = "remove_key" /\ ret # None /\ Len(pre) = 3 /\ Len(dict) = 2

(* C10: when hash_f is injective on the keys in use, every call returns what
   the reference map returns and leaves the Dict's (key, value) pairs equal to
   the map's contents and its length equal to the map's size.  The map run
   side by side is carried as AbsMap of the Dict: it starts empty with the
   Dict, and each call takes AbsMap(pre) to AbsMap(dict) by the map's own
   operation. *)
C10_RefinesMap ==
    LET m == AbsMap(pre) IN
    /\ op = "new" => AbsMap(dict) = EmptyMap
    /\ (op # "new" /\ InjectiveOn(KeysOf(pre) \cup {key})) =>
        /\ op = "add" => /\ ret = MapInsertIfAbsent(m, key, val).ret
                         /\ AbsMap(dict) = MapInsertIfAbsent(m, key, val).map
        /\ op = "remove_key" => /\ ret = MapDelete(m, key).ret
                                /\ AbsMap(dict) = MapDelete(m, key).map
        /\ op = "get" => /\ ret = MapLookup(m, key)
                         /\ AbsMap(dict) = m
        /\ op = "contains_key" => /\ ret = (MapLookup(m, key) # None)
                                  /\ AbsMap(dict) = m
    /\ Pairs(dict) = MapPairs(AbsMap(dict))
    /\ Len(dict) = Cardinality(DOMAIN AbsMap(dict))

\* three keys with three hashes stored, the middle one just removed
C10_Witness ==
    /\ op = "remove_key" /\ ret # None /\ Len(pre) = 3 /\ pre[2].key = key
    /\ InjectiveOn(KeysOf(pre) \cup {key})
    /\ AbsMap(dict) = MapDelete(AbsMap(pre), key).map
====
